---- MODULE Spec2Model ----
(***************************************************************************)
(* Model of nbdime/merging/decisions.py: merge decisions, their path       *)
(* normalisation, the ordering used by MergeDecisionBuilder.validated,     *)
(* resolve_action, apply_decisions and build_diffs.                        *)
(*                                                                         *)
(* Representation of Python values:                                        *)
(*   path component   [name |-> "a"] (text key)  or  [index |-> 1] (int)   *)
(*   path             sequence of components (a Python tuple)              *)
(*   document node    [t |-> "dict", v |-> function on strings]            *)
(*                    [t |-> "list", v |-> sequence of nodes]              *)
(*                    [t |-> "str",  v |-> sequence of lines], a line      *)
(*                        being a sequence of one-character strings        *)
(*                    [t |-> "int",  v |-> n]   and   [t |-> "none"]       *)
(*   diff op          [op |-> "patch", key |-> k, diff |-> d]  etc.        *)
(*   diff             sequence of ops, or NoneDiff for Python's None       *)
(*   raised exception [t |-> "error", exc |-> "KeyError"]                  *)
(***************************************************************************)
EXTENDS Integers, Sequences, FiniteSets, TLC

VARIABLES
    decisions,          \* MergeDecisionBuilder.decisions / the list given to apply_decisions
    out,                \* value returned by MergeDecisionBuilder.validated (None before the call)
    base,               \* the base document handed to apply_decisions
    pc,                 \* position of the running call
    i,                  \* index of the next decision of the for loop of apply_decisions
    merged,             \* apply_decisions: working copy
    prev_path,          \* apply_decisions: path of the open collection (NonePath before the first)
    resolved,           \* apply_decisions: node at prev_path when the collection was opened
    diffs,              \* apply_decisions: ops collected for the open collection
    clear_parent_flag,  \* apply_decisions: a clear_parent decision was seen in the collection
    flushed,            \* history: [path, ops, node, new] of every collection patched so far
    opened,             \* history: path of every collection opened so far, in order
    result,             \* value returned (or exception raised) by the call
    flat,               \* [which, diff]: the value returned by build_diffs (None before the call)
    arg                 \* the (path, diffs) a normaliser round trip started from (None otherwise)

vars == <<decisions, out, base, pc, i, merged, prev_path, resolved, diffs,
          clear_parent_flag, flushed, opened, result, flat, arg>>

applyVars == <<base, i, merged, prev_path, resolved, diffs, clear_parent_flag,
               flushed, opened, result, flat, arg>>

-----------------------------------------------------------------------------
(* Python values *)

None == [none |-> TRUE]

\* None where a list (a diff, a path) is expected.
NoneDiff == <<None>>

NonePath == <<None>>

Name(s) == [name |-> s]

Index(n) == [index |-> n]

IsInt(k) == DOMAIN k = {"index"}

IsText(k) == DOMAIN k = {"name"}

Error(e) == [t |-> "error", exc |-> e]

Dict(f) == [t |-> "dict", v |-> f]

List(s) == [t |-> "list", v |-> s]

Str(lines) == [t |-> "str", v |-> lines]

IntValue(n) == [t |-> "int", v |-> n]

NoneValue == [t |-> "none"]

\* bool(x) of a diff: None and the empty list are falsy.
Truthy(d) == d # NoneDiff /\ d # <<>>

-----------------------------------------------------------------------------
(* diff_format: constructors of diff ops *)

op_patch(key, diff) == [op |-> "patch", key |-> key, diff |-> diff]

op_replace(key, value) == [op |-> "replace", key |-> key, value |-> value]

op_remove(key) == [op |-> "remove", key |-> key]

op_add(key, value) == [op |-> "add", key |-> key, value |-> value]

op_removerange(key, length) == [op |-> "removerange", key |-> key, length |-> length]

op_addrange(key, valuelist) == [op |-> "addrange", key |-> key, valuelist |-> valuelist]

-----------------------------------------------------------------------------
(* The ordering: _sort_key and sorted(..., reverse=True) *)

\* Text keys that r_is_int matches, with their int() value.
IntOfText == [x \in {"0", "1", "2"} |-> CASE x = "0" -> 0 [] x = "1" -> 1 [] x = "2" -> 2]

r_is_int(s) == s \in DOMAIN IntOfText

\* Rank of a text in Python's string order, for the texts used as keys.
TextRank == [x \in {"", "0", "1", "2", "a", "b", "s"} |->
                CASE x = "" -> 0 [] x = "0" -> 1 [] x = "1" -> 2 [] x = "2" -> 3
                  [] x = "a" -> 4 [] x = "b" -> 5 [] x = "s" -> 6]

\* The element with the int left as it is: ('', s).
SortKeyItemPlain(s) ==
    IF IsInt(s) THEN <<0, s.index>>
    ELSE IF r_is_int(s.name) THEN <<0, IntOfText[s.name]>>
    ELSE <<TextRank[s.name]>>

\* One element of the list _sort_key builds: ('', -s) for an int, (s,) for a text.
\* The first component is kept as its rank in the string order.
SortKeyItem(s) ==
    IF IsInt(s) THEN <<0, -(s.index)>>
    ELSE IF r_is_int(s.name) THEN <<0, -IntOfText[s.name]>>
    ELSE <<TextRank[s.name]>>

sort_key(k) == [n \in 1..Len(k.common_path) |-> SortKeyItem(k.common_path[n])]

\* Python's < on tuples of ints.
RECURSIVE TupleLess(_, _)
TupleLess(a, b) ==
    IF b = <<>> THEN FALSE
    ELSE IF a = <<>> THEN TRUE
    ELSE IF Head(a) # Head(b) THEN Head(a) < Head(b)
    ELSE TupleLess(Tail(a), Tail(b))

\* Python's < on lists of tuples.
RECURSIVE ListLess(_, _)
ListLess(a, b) ==
    IF b = <<>> THEN FALSE
    ELSE IF a = <<>> THEN TRUE
    ELSE IF Head(a) # Head(b) THEN TupleLess(Head(a), Head(b))
    ELSE ListLess(Tail(a), Tail(b))

\* The insertion of a sort without reverse=True (ascending order of key).
RECURSIVE InsertAscending(_, _)
InsertAscending(s, x) ==
    IF s = <<>> THEN <<x>>
    ELSE IF ListLess(sort_key(x), sort_key(Head(s))) THEN <<x>> \o s
    ELSE <<Head(s)>> \o InsertAscending(Tail(s), x)

\* Stable insertion of x into a list already in descending order of key:
\* x goes after every element whose key is not smaller than its own.
RECURSIVE InsertDescending(_, _)
InsertDescending(s, x) ==
    IF s = <<>> THEN <<x>>
    ELSE IF ListLess(sort_key(Head(s)), sort_key(x)) THEN <<x>> \o s
    ELSE <<Head(s)>> \o InsertDescending(Tail(s), x)

\* The list left in the order given.
SortedAsGiven(ds) == ds

\* sorted(ds, key=_sort_key, reverse=True): a stable sort, largest key first.
RECURSIVE SortedReverse(_)
SortedReverse(ds) ==
    IF ds = <<>> THEN <<>>
    ELSE InsertDescending(SortedReverse(SubSeq(ds, 1, Len(ds) - 1)), ds[Len(ds)])

-----------------------------------------------------------------------------
(* Path normalisation *)

\* _pop_path over a list of diffs: None, or <<key, popped diffs>>.
RECURSIVE PopPathFrom(_, _, _)
PopPathFrom(ds, key, popped) ==
    IF ds = <<>> THEN (IF key = None THEN None ELSE [key |-> key, diffs |-> popped])
    ELSE LET d == Head(ds) IN
         IF d = NoneDiff \/ Len(d) = 0
             THEN PopPathFrom(Tail(ds), key, Append(popped, NoneDiff))
         ELSE IF Len(d) # 1 \/ d[1].op # "patch" THEN None
         ELSE IF key # None /\ key # d[1].key THEN None
         ELSE PopPathFrom(Tail(ds), d[1].key, Append(popped, d[1].diff))

pop_path(ds) == PopPathFrom(ds, None, <<>>)

RECURSIVE ensure_common_path(_, _)

\* The loop of ensure_common_path that stops after the first popped key.
EnsureOnce(path, ds, popped) ==
    IF popped = None THEN [path |-> path, diffs |-> ds]
    ELSE [path |-> Append(path, popped.key), diffs |-> popped.diffs]

\* Lines 180-184: one turn of the while loop, popped being _pop_path(diffs).
EnsureNext(path, ds, popped) ==
    IF popped = None THEN [path |-> path, diffs |-> ds]
    ELSE ensure_common_path(Append(path, popped.key), popped.diffs)

ensure_common_path_once(path, ds) == EnsureOnce(path, ds, pop_path(ds))

ensure_common_path(path, ds) == EnsureNext(path, ds, pop_path(ds))

\* The wrapping without reversed(): the first key ends up innermost.
RECURSIVE push_path_forward(_, _)
push_path_forward(path, ds) ==
    IF path = <<>> THEN ds
    ELSE push_path_forward(Tail(path), <<op_patch(Head(path), ds)>>)

RECURSIVE push_path(_, _)
push_path(path, ds) ==
    IF path = <<>> THEN ds
    ELSE <<op_patch(Head(path), push_path(Tail(path), ds))>>

MergeDecision(path, action, local_diff, remote_diff, custom_diff, conflict) ==
    [common_path |-> path, action |-> action, local_diff |-> local_diff,
     remote_diff |-> remote_diff, custom_diff |-> custom_diff, conflict |-> conflict]

\* Lines 243-251: the decision one level lower, for the popped key and diffs.
PoppedDecision(decision, popped) ==
    IF popped = None THEN None
    ELSE MergeDecision(Append(decision.common_path, popped.key), decision.action,
                       popped.diffs[1], popped.diffs[2],
                       IF decision.action = "custom" THEN popped.diffs[3] ELSE NoneDiff,
                       decision.conflict)

pop_patch_decision(decision) ==
    PoppedDecision(decision,
                   pop_path(IF decision.action = "custom"
                            THEN <<decision.local_diff, decision.remote_diff,
                                   decision.custom_diff>>
                            ELSE <<decision.local_diff, decision.remote_diff>>))

RECURSIVE pop_all_patch_decisions(_)

\* Lines 264-267: one turn of the while loop, popped being pop_patch_decision(decision).
PopAllNext(decision, popped) ==
    IF popped = None THEN decision ELSE pop_all_patch_decisions(popped)

pop_all_patch_decisions(decision) == PopAllNext(decision, pop_patch_decision(decision))

RECURSIVE PushKeys(_, _)

\* Lines 278-288: one turn of the loop over reversed(prefix).
PushKey(dec, rest, key) ==
    IF Len(dec.common_path) = 0 THEN Error("ValueError")
    ELSE IF dec.common_path[Len(dec.common_path)] # key THEN Error("AssertionError")
    ELSE PushKeys([dec EXCEPT
                      !.common_path = SubSeq(@, 1, Len(@) - 1),
                      !.local_diff = <<op_patch(key, @)>>,
                      !.remote_diff = <<op_patch(key, @)>>,
                      !.custom_diff = IF dec.action = "custom" THEN <<op_patch(key, @)>> ELSE @],
                  rest)

PushKeys(dec, prefix) ==
    IF prefix = <<>> THEN dec
    ELSE PushKey(dec, SubSeq(prefix, 1, Len(prefix) - 1), prefix[Len(prefix)])

\* push_patch_decision: the new decision, or the exception raised.
push_patch_decision(decision, prefix) == PushKeys(decision, prefix)

-----------------------------------------------------------------------------
(* MergeDecisionBuilder *)

\* Lines 93-100: the decision stored for the normalised path and diffs n.
StoreDecision(n, action, conflict) ==
    decisions' = Append(decisions,
                        MergeDecision(n.path, action, n.diffs[1], n.diffs[2],
                                      n.diffs[3], conflict))

\* add_decision: the diffs are taken as lists or None (tuples and single ops
\* are made lists by lines 70-85 before anything else looks at them).
add_decision(path, action, local_diff, remote_diff, conflict, custom_diff) ==
    /\ pc = "build"
    /\ StoreDecision(ensure_common_path(path, <<local_diff, remote_diff, custom_diff>>),
                     action, conflict)
    /\ UNCHANGED <<out, pc>>
    /\ UNCHANGED applyVars

validated ==
    /\ pc = "build"
    /\ out' = SortedReverse(decisions)
    /\ pc' = "validated"
    /\ UNCHANGED decisions
    /\ UNCHANGED applyVars

InitBuilder ==
    /\ decisions = <<>>
    /\ out = None
    /\ pc = "build"
    /\ base = NoneValue
    /\ i = 0
    /\ merged = NoneValue
    /\ prev_path = NonePath
    /\ resolved = NoneValue
    /\ diffs = NoneDiff
    /\ clear_parent_flag = FALSE
    /\ flushed = <<>>
    /\ opened = <<>>
    /\ result = None
    /\ flat = None
    /\ arg = None


-----------------------------------------------------------------------------
(* MergeDecisionBuilder: the constructors of the action families *)

\* A constructor ends in the exception e before add_decision is called:
\* nothing but the raised exception changes.
RaiseInBuilder(e) ==
    /\ result' = Error(e)
    /\ UNCHANGED <<decisions, out, base, pc, i, merged, prev_path, resolved, diffs,
                   clear_parent_flag, flushed, opened, flat, arg>>

\* onesided (lines 110-122): the asserts of lines 111-112, then add_decision
\* without the conflict argument.
onesided(path, local_diff, remote_diff) ==
    IF ~(Truthy(local_diff) \/ Truthy(remote_diff)) THEN RaiseInBuilder("AssertionError")
    ELSE IF Truthy(local_diff) /\ Truthy(remote_diff) THEN RaiseInBuilder("AssertionError")
    ELSE add_decision(path, IF Truthy(local_diff) THEN "local" ELSE "remote",
                      local_diff, remote_diff, FALSE, NoneDiff)

\* local_then_remote (lines 124-134).
local_then_remote(path, local_diff, remote_diff, conflicted) ==
    IF ~(Truthy(local_diff) /\ Truthy(remote_diff)) THEN RaiseInBuilder("AssertionError")
    ELSE IF local_diff = remote_diff THEN RaiseInBuilder("AssertionError")
    ELSE add_decision(path, "local_then_remote", local_diff, remote_diff, conflicted, NoneDiff)

\* remote_then_local (lines 136-146).
remote_then_local(path, local_diff, remote_diff, conflicted) ==
    IF ~(Truthy(local_diff) /\ Truthy(remote_diff)) THEN RaiseInBuilder("AssertionError")
    ELSE IF local_diff = remote_diff THEN RaiseInBuilder("AssertionError")
    ELSE add_decision(path, "remote_then_local", local_diff, remote_diff, conflicted, NoneDiff)

\* agreement without the assert of line 150: unequal sides are stored.
agreement_unchecked(path, local_diff, remote_diff) ==
    IF ~(Truthy(local_diff) /\ Truthy(remote_diff)) THEN RaiseInBuilder("AssertionError")
    ELSE add_decision(path, "either", local_diff, remote_diff, FALSE, NoneDiff)

\* agreement (lines 148-156).
agreement(path, local_diff, remote_diff) ==
    IF ~(Truthy(local_diff) /\ Truthy(remote_diff)) THEN RaiseInBuilder("AssertionError")
    ELSE IF local_diff # remote_diff THEN RaiseInBuilder("AssertionError")
    ELSE add_decision(path, "either", local_diff, remote_diff, FALSE, NoneDiff)

\* conflict (lines 158-168).
conflict(path, local_diff, remote_diff) ==
    IF ~(Truthy(local_diff) /\ Truthy(remote_diff)) THEN RaiseInBuilder("AssertionError")
    ELSE IF local_diff = remote_diff THEN RaiseInBuilder("AssertionError")
    ELSE add_decision(path, "base", local_diff, remote_diff, TRUE, NoneDiff)

-----------------------------------------------------------------------------
(* push_patch_decision on objects: decision is the object passed in, dec   *)
(* the object the loop assigns to; shared says they are one object         *)

PushObjects(decision, dec, shared, err) ==
    [decision |-> decision, dec |-> dec, shared |-> shared, err |-> err]

\* dec = decision: the loop assigns to the object passed in.
PushStartShared(decision) == PushObjects(decision, decision, TRUE, None)

\* Line 275: dec = copy.copy(decision), a new object with the same items.
PushStart(decision) == PushObjects(decision, decision, FALSE, None)

\* Lines 284-288: the assignments to the attributes of dec.
PushAssign(o, new) ==
    IF o.shared THEN [o EXCEPT !.dec = new, !.decision = new]
    ELSE [o EXCEPT !.dec = new]

\* Lines 278-288: one turn of the loop, for the key taken from the prefix.
PushTurn(o, key) ==
    IF Len(o.dec.common_path) = 0 THEN [o EXCEPT !.err = Error("ValueError")]
    ELSE IF o.dec.common_path[Len(o.dec.common_path)] # key
         THEN [o EXCEPT !.err = Error("AssertionError")]
    ELSE PushAssign(o, [o.dec EXCEPT
                           !.common_path = SubSeq(@, 1, Len(@) - 1),
                           !.local_diff = <<op_patch(key, @)>>,
                           !.remote_diff = <<op_patch(key, @)>>,
                           !.custom_diff = IF o.dec.action = "custom"
                                           THEN <<op_patch(key, @)>> ELSE @])

\* Line 277: the loop over reversed(prefix).
RECURSIVE PushLoop(_, _)
PushLoop(o, prefix) ==
    IF o.err # None \/ prefix = <<>> THEN o
    ELSE PushLoop(PushTurn(o, prefix[Len(prefix)]), SubSeq(prefix, 1, Len(prefix) - 1))

\* The objects after push_patch_decision(decision, prefix).
PushCall(decision, prefix) == PushLoop(PushStart(decision), prefix)
-----------------------------------------------------------------------------
(* Documents *)

IsError(x) == x.t = "error"

Raised(x) == "exc" \in DOMAIN x

\* The keys of a mapping in the order a dict built from a document with
\* sorted keys lists them.
RECURSIVE KeysInOrder(_)
KeysInOrder(ks) ==
    IF ks = {} THEN <<>>
    ELSE LET k == CHOOSE x \in ks : \A y \in ks : TextRank[x] <= TextRank[y]
         IN <<k>> \o KeysInOrder(ks \ {k})

RECURSIVE CharCount(_)
CharCount(lines) ==
    IF lines = <<>> THEN 0 ELSE Len(Head(lines)) + CharCount(Tail(lines))

RECURSIVE Flatten(_)
Flatten(lines) ==
    IF lines = <<>> THEN <<>> ELSE Head(lines) \o Flatten(Tail(lines))

\* len(node) of a container
PyLen(node) ==
    CASE node.t = "dict" -> Cardinality(DOMAIN node.v)
      [] node.t = "list" -> Len(node.v)
      [] node.t = "str" -> CharCount(node.v)

\* node[key]: the child, or the exception Python raises.
GetItem(node, key) ==
    CASE node.t = "dict" ->
            IF IsText(key) /\ key.name \in DOMAIN node.v THEN node.v[key.name]
            ELSE Error("KeyError")
      [] node.t = "list" ->
            IF ~IsInt(key) THEN Error("TypeError")
            ELSE IF key.index < Len(node.v) THEN node.v[key.index + 1]
            ELSE Error("IndexError")
      [] node.t = "str" ->
            IF ~IsInt(key) THEN Error("TypeError")
            ELSE IF key.index < CharCount(node.v)
                 THEN Str(<< <<Flatten(node.v)[key.index + 1]>> >>)
            ELSE Error("IndexError")
      [] OTHER -> Error("TypeError")

\* The walk "for key in path: resolved = resolved[key]".
RECURSIVE GetAt(_, _)
GetAt(node, path) ==
    IF path = <<>> \/ IsError(node) THEN node
    ELSE GetAt(GetItem(node, Head(path)), Tail(path))

\* The document with the node at path (which resolves to a container entry)
\* replaced: parent[last_key] = new, or the new root for the empty path.
RECURSIVE SetAt(_, _, _)
SetAt(node, path, new) ==
    IF path = <<>> THEN new
    ELSE IF node.t = "dict"
         THEN Dict([x \in DOMAIN node.v |->
                        IF x = Head(path).name THEN SetAt(node.v[x], Tail(path), new)
                        ELSE node.v[x]])
         ELSE List([n \in 1..Len(node.v) |->
                        IF n = Head(path).index + 1 THEN SetAt(node.v[n], Tail(path), new)
                        ELSE node.v[n]])

-----------------------------------------------------------------------------
(* patching.patch: the external primitive.  patch(node, ops) applies the    *)
(* ops one after the other and fails when an op addresses a key or index   *)
(* the node does not have, or is not an op of the node's type.             *)

RemoveAt(items, n, length) ==
    SubSeq(items, 1, n) \o
        (IF n + length >= Len(items) THEN <<>> ELSE SubSeq(items, n + length + 1, Len(items)))

InsertAt(items, n, values) ==
    SubSeq(items, 1, n) \o values \o SubSeq(items, n + 1, Len(items))

RECURSIVE patch(_, _)
RECURSIVE PatchItems(_, _, _)

\* The sequence with entry n replaced by the patched item, or the Error.
StoreItem(items, n, new) ==
    IF Raised(new) THEN new ELSE [items |-> [items EXCEPT ![n + 1] = new.item]]

NodeItem(new) == IF Raised(new) THEN new ELSE [item |-> new]

LineItem(new) == IF Raised(new) THEN new ELSE [item |-> new.items]

\* The patched item as [item |-> x], or an Error.  level 0: a node of a
\* list; level 1: a line of a text; level 2: a character of a line.
PatchItem(item, diff, level) ==
    IF diff = NoneDiff THEN Error("patch")
    ELSE CASE level = 0 -> NodeItem(patch(item, diff))
           [] level = 1 -> LineItem(PatchItems(item, diff, 2))
           [] OTHER -> IF diff = <<>> THEN [item |-> item] ELSE Error("patch")

\* One op on a sequence of items: [items |-> the new sequence], or an Error.
PatchItemsOp(items, e, level) ==
    IF ~IsInt(e.key) THEN Error("patch")
    ELSE CASE e.op = "addrange" ->
                IF e.key.index <= Len(items)
                THEN [items |-> InsertAt(items, e.key.index, e.valuelist)]
                ELSE Error("patch")
           [] e.op = "removerange" ->
                IF e.key.index <= Len(items)
                THEN [items |-> RemoveAt(items, e.key.index, e.length)]
                ELSE Error("patch")
           [] e.op = "patch" ->
                IF e.key.index >= Len(items) THEN Error("patch")
                ELSE StoreItem(items, e.key.index,
                               PatchItem(items[e.key.index + 1], e.diff, level))
           [] OTHER -> Error("patch")

PatchItemsNext(new, ops, level) ==
    IF Raised(new) THEN new ELSE PatchItems(new.items, ops, level)

PatchItems(items, ops, level) ==
    IF ops = <<>> THEN [items |-> items]
    ELSE PatchItemsNext(PatchItemsOp(items, Head(ops), level), Tail(ops), level)

StoreKey(node, k, new) ==
    IF IsError(new) THEN new
    ELSE Dict([x \in DOMAIN node.v \cup {k} |-> IF x = k THEN new ELSE node.v[x]])

PatchDictOp(node, e) ==
    IF ~IsText(e.key) THEN Error("patch")
    ELSE CASE e.op = "add" -> StoreKey(node, e.key.name, e.value)
           [] e.op = "remove" ->
                IF e.key.name \in DOMAIN node.v
                THEN Dict([x \in DOMAIN node.v \ {e.key.name} |-> node.v[x]])
                ELSE Error("patch")
           [] e.op = "replace" ->
                IF e.key.name \in DOMAIN node.v
                THEN StoreKey(node, e.key.name, e.value)
                ELSE Error("patch")
           [] e.op = "patch" ->
                IF e.key.name \in DOMAIN node.v /\ e.diff # NoneDiff
                THEN StoreKey(node, e.key.name, patch(node.v[e.key.name], e.diff))
                ELSE Error("patch")
           [] OTHER -> Error("patch")

ListOf(new) == IF Raised(new) THEN new ELSE List(new.items)

StrOf(new) == IF Raised(new) THEN new ELSE Str(new.items)

patch(node, ops) ==
    IF ops = NoneDiff THEN Error("patch")
    ELSE IF ops = <<>> \/ IsError(node) THEN node
    ELSE CASE node.t = "dict" -> patch(PatchDictOp(node, Head(ops)), Tail(ops))
           [] node.t = "list" -> ListOf(PatchItems(node.v, ops, 0))
           [] node.t = "str" -> StrOf(PatchItems(node.v, ops, 1))
           [] OTHER -> Error("patch")

\* nbformat.from_dict rebuilds mappings as NotebookNode mappings with the same
\* keys and values: on document values it returns an equal document.
from_dict(d) == d

-----------------------------------------------------------------------------
(* Applying decisions *)

RECURSIVE SplitFrom(_, _, _)

SplitNext(child, path, n) ==
    IF IsError(child) THEN child ELSE SplitFrom(child, path, n + 1)

\* The loop of split_string_path at index n, b being the node at path[:n].
SplitFrom(b, path, n) ==
    IF n >= Len(path) THEN [path |-> path, line |-> <<>>]
    ELSE IF b.t = "str"
         THEN [path |-> SubSeq(path, 1, n), line |-> SubSeq(path, n + 1, Len(path))]
    ELSE SplitNext(GetItem(b, path[n + 1]), path, n)

\* split_string_path: [path, line], or the exception raised by base[path[i]].
split_string_path(b, path) == SplitFrom(b, path, 0)

\* The cleared value that is None whatever the type.
make_cleared_value_none(value) == NoneValue

make_cleared_value(value) ==
    CASE value.t = "list" -> List(<<>>)
      [] value.t = "dict" -> Dict(<<>>)
      [] value.t = "str" -> Str(<<>>)
      [] OTHER -> NoneValue

\* bool(key) of the key variable of the clear branch: None, 0 and "" are falsy.
KeyTruthy(key) ==
    /\ key # None
    /\ key # Index(0)
    /\ key # Name("")

\* The loop of the clear branch: the key left in the variable, or the
\* AssertionError of line 404.
RECURSIVE ClearKey(_, _)
ClearKey(ds, key) ==
    IF ds = <<>> THEN key
    ELSE IF KeyTruthy(key)
         THEN (IF key = Head(ds).key THEN ClearKey(Tail(ds), key)
               ELSE Error("AssertionError"))
    ELSE ClearKey(Tail(ds), Head(ds).key)

\* Raised exceptions are returned as <<Error>>, the value None as NoneDiff.
ErrorDiff(e) == <<Error(e)>>

IsErrorList(d) == Len(d) = 1 /\ "exc" \in DOMAIN d[1]

\* Line 407: the Replace of the cleared value, value being base[key].
ClearReplace(key, value) ==
    IF IsError(value) THEN <<value>>
    ELSE <<op_replace(key, make_cleared_value(value))>>

ClearOp(b, key) ==
    IF key = Error("AssertionError") THEN ErrorDiff("AssertionError")
    ELSE ClearReplace(key, GetItem(b, key))

\* Line 412: one Remove per key of the mapping.
RemoveAll(keys) == [n \in 1..Len(keys) |-> op_remove(Name(keys[n]))]

\* The resolution that takes the local side for an unresolved conflict.
resolve_action_base_local(b, decision) ==
    CASE decision.action = "base" ->
            (IF decision.local_diff = NoneDiff THEN <<>> ELSE decision.local_diff)
      [] decision.action \in {"local", "either"} -> decision.local_diff
      [] decision.action = "remote" -> decision.remote_diff
      [] decision.action = "custom" -> decision.custom_diff
      [] decision.action = "local_then_remote" ->
            IF decision.local_diff = NoneDiff \/ decision.remote_diff = NoneDiff
            THEN ErrorDiff("TypeError")
            ELSE decision.local_diff \o decision.remote_diff
      [] decision.action = "remote_then_local" ->
            IF decision.local_diff = NoneDiff \/ decision.remote_diff = NoneDiff
            THEN ErrorDiff("TypeError")
            ELSE decision.remote_diff \o decision.local_diff
      [] decision.action = "clear" ->
            IF decision.local_diff = NoneDiff \/ decision.remote_diff = NoneDiff
            THEN ErrorDiff("TypeError")
            ELSE ClearOp(b, ClearKey(decision.local_diff \o decision.remote_diff, None))
      [] decision.action = "clear_parent" ->
            IF b.t = "dict" THEN RemoveAll(KeysInOrder(DOMAIN b.v))
            ELSE IF b.t \in {"list", "str"} THEN <<op_removerange(Index(0), PyLen(b))>>
            ELSE NoneDiff
      [] OTHER -> ErrorDiff("NotImplementedError")

resolve_action(b, decision) ==
    CASE decision.action = "base" -> <<>>
      [] decision.action \in {"local", "either"} -> decision.local_diff
      [] decision.action = "remote" -> decision.remote_diff
      [] decision.action = "custom" -> decision.custom_diff
      [] decision.action = "local_then_remote" ->
            IF decision.local_diff = NoneDiff \/ decision.remote_diff = NoneDiff
            THEN ErrorDiff("TypeError")
            ELSE decision.local_diff \o decision.remote_diff
      [] decision.action = "remote_then_local" ->
            IF decision.local_diff = NoneDiff \/ decision.remote_diff = NoneDiff
            THEN ErrorDiff("TypeError")
            ELSE decision.remote_diff \o decision.local_diff
      [] decision.action = "clear" ->
            IF decision.local_diff = NoneDiff \/ decision.remote_diff = NoneDiff
            THEN ErrorDiff("TypeError")
            ELSE ClearOp(b, ClearKey(decision.local_diff \o decision.remote_diff, None))
      [] decision.action = "clear_parent" ->
            IF b.t = "dict" THEN RemoveAll(KeysInOrder(DOMAIN b.v))
            ELSE IF b.t \in {"list", "str"} THEN <<op_removerange(Index(0), PyLen(b))>>
            ELSE NoneDiff
      [] OTHER -> ErrorDiff("NotImplementedError")

\* The state of one call of apply_decisions, as a record.
ApplyState(m, pp, r, d, f, fl, op, e) ==
    [merged |-> m, prev_path |-> pp, resolved |-> r, diffs |-> d,
     clear_parent_flag |-> f, flushed |-> fl, opened |-> op, err |-> e]

ApplyInit(b) == ApplyState(b, NonePath, NoneValue, NoneDiff, FALSE, <<>>, <<>>, None)

Raise(st, e) == [st EXCEPT !.err = e]

\* Lines 455-462: the result of patch written back, or its exception raised.
WriteBack(st, new) ==
    IF IsError(new) THEN Raise(st, new)
    ELSE [st EXCEPT !.merged = SetAt(st.merged, st.prev_path, new),
                    !.flushed = Append(st.flushed,
                                        [path |-> st.prev_path, ops |-> st.diffs,
                                         node |-> st.resolved, new |-> new])]

\* The flush guarded by "if prev_path:", which takes the root path () for None.
FlushSkipsRoot(st) ==
    IF st.prev_path = NonePath \/ st.prev_path = <<>> THEN st
    ELSE WriteBack(st, patch(st.resolved, st.diffs))

\* Lines 453-462 and 478-482: patch the open collection and write it back.
Flush(st) ==
    IF st.prev_path = NonePath THEN st
    ELSE WriteBack(st, patch(st.resolved, st.diffs))

\* Line 449: diffs.extend(ad), cur being the list extended.
Extend(st, md, cur, ad) ==
    IF cur = NoneDiff THEN Raise(st, Error("AttributeError"))
    ELSE IF ad = NoneDiff THEN Raise(st, Error("TypeError"))
    ELSE [st EXCEPT !.diffs = cur \o ad,
                    !.clear_parent_flag = (md.action = "clear_parent")]

\* Lines 442-449, ad being resolve_action(resolved, md).
CollectOps(st, md, line, ad) ==
    IF IsErrorList(ad) THEN Raise(st, ad[1])
    ELSE Extend(st, md,
                IF md.action = "clear_parent" THEN <<>> ELSE st.diffs,
                IF line # <<>> THEN push_path(line, ad) ELSE ad)

\* Lines 437-449: the decision has the path of the open collection.
CollectEntry(st, md, line) ==
    IF st.clear_parent_flag THEN st
    ELSE CollectOps(st, md, line, resolve_action(st.resolved, md))

\* Lines 473-476, ad being resolve_action(resolved, md).
OpenWith(st, md, path, line, r, ad) ==
    IF IsErrorList(ad) THEN Raise(st, ad[1])
    ELSE [st EXCEPT !.prev_path = path,
                    !.resolved = r,
                    !.diffs = IF line # <<>> THEN push_path(line, ad) ELSE ad,
                    !.clear_parent_flag = (md.action = "clear_parent"),
                    !.opened = Append(st.opened, path)]

\* Lines 464-472, r being the node the walk along path ends at.
OpenAt(st, md, path, line, r) ==
    IF IsError(r) THEN Raise(st, r)
    ELSE OpenWith(st, md, path, line, r, resolve_action(r, md))

\* Lines 464-476, st being the state after the flush.
OpenCollection(st, md, path, line) ==
    IF st.err # None THEN st
    ELSE OpenAt(st, md, path, line, GetAt(st.merged, path))

\* The collection of the decision opened with the open one left unflushed.
NewCollectionUnflushed(st, md, path, line) == OpenCollection(st, md, path, line)

\* Lines 452-476: flush the open collection and open the one of the decision.
NewCollection(st, md, path, line) == OpenCollection(Flush(st), md, path, line)

\* Lines 435-476, sp being split_string_path(merged, md.common_path).
StepWith(st, md, sp) ==
    IF Raised(sp) THEN Raise(st, sp)
    ELSE IF sp.path = st.prev_path THEN CollectEntry(st, md, sp.line)
    ELSE NewCollection(st, md, sp.path, sp.line)

\* One iteration of the for loop of apply_decisions.
ApplyStep(st, md) == StepWith(st, md, split_string_path(st.merged, md.common_path))

Returned(st) == IF st.err # None THEN st.err ELSE from_dict(st.merged)

\* Lines 477-485: the last flush; the value returned or the exception raised.
ApplyEnd(st) == Returned(Flush(st))

RECURSIVE ApplyLoop(_, _)
ApplyLoop(st, ds) ==
    IF st.err # None \/ ds = <<>> THEN st
    ELSE ApplyLoop(ApplyStep(st, Head(ds)), Tail(ds))

EndOf(st) == IF st.err # None THEN st.err ELSE ApplyEnd(st)

\* apply_decisions as a function of its arguments.
apply_decisions(b, ds) == EndOf(ApplyLoop(ApplyInit(b), ds))

-----------------------------------------------------------------------------
(* Reassembling a diff *)

\* MergeDecision.local_path: line 39 reads the global _level, which the
\* module never defines, so the call raises NameError.
local_path(md) == Error("NameError")

\* The for loop of build_diffs: its first statement (line 543) calls
\* md.local_path(), so the first decision ends the call.
BuildLoop(b, ds, which) ==
    IF ds = <<>> THEN NoneDiff ELSE <<local_path(Head(ds))>>

\* build_diffs: None for no decisions (line 573-574), else the exception.
build_diffs(b, ds, which) ==
    IF which \notin {"local", "merged", "remote"} THEN ErrorDiff("AssertionError")
    ELSE BuildLoop(b, ds, which)

-----------------------------------------------------------------------------
(* Specification of the ordering: decisions at any paths, added in any order *)

MaxDecisions == 3

SortKeys == {Name("a"), Name("b"), Name(""), Name("1"), Index(0), Index(1), Index(2)}

SortPaths == {<<>>} \cup {<<k>> : k \in SortKeys}
                \cup {<<Name("a"), k>> : k \in {Name("a"), Index(0), Index(1), Index(2)}}
                \cup {<<Index(1), k>> : k \in {Name("b"), Index(2)}}

NextSort ==
    \/ \E p \in SortPaths :
          /\ Len(decisions) < MaxDecisions
          /\ add_decision(p, "base", NoneDiff, NoneDiff, FALSE, NoneDiff)
    \/ validated

SpecSort == InitBuilder /\ [][NextSort]_vars

-----------------------------------------------------------------------------
(* Specification of apply_decisions: a base document and a list of decisions *)
(* in validated order, applied one loop iteration at a time                  *)

MaxApplyDecisions == 2

Line(c) == <<c, "\n">>

\* {"a": {"b": [1, 2, 3]}, "s": "x\nyy\nz"}
DocNested ==
    Dict([a |-> Dict([b |-> List(<<IntValue(1), IntValue(2), IntValue(3)>>)]),
          s |-> Str(<<Line("x"), <<"y", "y", "\n">>, <<"z">>>>)])

\* {"a": {"b": "x\ny"}, "b": 7, "s": [{"b": 1}, [4, 5]]}
DocMixed ==
    Dict([a |-> Dict([b |-> Str(<<Line("x"), <<"y">>>>)]),
          b |-> IntValue(7),
          s |-> List(<<Dict([b |-> IntValue(1)]), List(<<IntValue(4), IntValue(5)>>)>>)])

\* {"a": "x\ny\n", "b": {"a": 1}, "s": "q"}
DocFlat ==
    Dict([a |-> Str(<<Line("x"), Line("y")>>),
          b |-> Dict([a |-> IntValue(1)]),
          s |-> Str(<< <<"q">> >>)])

Bases == {DocNested, DocMixed, DocFlat}

PathRoot == <<>>

PathA == <<Name("a")>>

PathAB == <<Name("a"), Name("b")>>

PathS == <<Name("s")>>

PathS0 == <<Name("s"), Index(0)>>

PathS1 == <<Name("s"), Index(1)>>

PathS10 == <<Name("s"), Index(1), Index(0)>>

ReplaceB == <<op_replace(Name("b"), List(<<IntValue(9)>>))>>

RemoveB == <<op_remove(Name("b"))>>

RemoveFirst == <<op_removerange(Index(0), 1)>>

RemoveSecond == <<op_removerange(Index(1), 1)>>

\* (action, local_diff, remote_diff, conflict) of the decisions on a mapping
MappingShapes ==
    { <<"base", <<>>, <<>>, FALSE>>,
      <<"base", ReplaceB, RemoveB, TRUE>>,
      <<"local", ReplaceB, NoneDiff, FALSE>>,
      <<"remote", NoneDiff, RemoveB, FALSE>>,
      <<"clear", ReplaceB, RemoveB, FALSE>>,
      <<"clear_parent", ReplaceB, RemoveB, FALSE>> }

\* ... on a sequence or a text
SequenceShapes ==
    { <<"base", RemoveFirst, RemoveSecond, TRUE>>,
      <<"local", RemoveFirst, NoneDiff, FALSE>>,
      <<"remote", NoneDiff, RemoveSecond, FALSE>>,
      <<"remote_then_local", RemoveFirst, RemoveSecond, FALSE>>,
      <<"clear_parent", RemoveFirst, RemoveSecond, FALSE>> }

\* ... on one entry of a sequence or one line of a text
EntryShapes ==
    { <<"base", RemoveFirst, RemoveSecond, TRUE>>,
      <<"remote", NoneDiff, RemoveFirst, FALSE>>,
      <<"clear_parent", RemoveFirst, RemoveSecond, FALSE>> }

Shaped(paths, shapes) ==
    { MergeDecision(p, sh[1], sh[2], sh[3], NoneDiff, sh[4]) : p \in paths, sh \in shapes }

DecisionPool ==
    Shaped({PathRoot, PathA}, MappingShapes)
        \cup Shaped({PathAB, PathS}, SequenceShapes)
        \cup Shaped({PathS0, PathS1, PathS10}, EntryShapes)

DecisionLists == UNION { [1..n -> DecisionPool] : n \in 0..MaxApplyDecisions }

Views == {"local", "remote", "merged"}

InitApply ==
    /\ base \in Bases
    /\ \E ds \in DecisionLists : decisions = SortedReverse(ds)
    /\ out = None
    /\ pc = "apply"
    /\ i = 0
    /\ merged = base
    /\ prev_path = NonePath
    /\ resolved = NoneValue
    /\ diffs = NoneDiff
    /\ clear_parent_flag = FALSE
    /\ flushed = <<>>
    /\ opened = <<>>
    /\ result = None
    /\ flat = None
    /\ arg = None

CurrentState ==
    ApplyState(merged, prev_path, resolved, diffs, clear_parent_flag, flushed, opened, None)

\* The variables of the loop after an iteration that ends in state st.
SetLoopState(st) ==
    /\ merged' = st.merged
    /\ prev_path' = st.prev_path
    /\ resolved' = st.resolved
    /\ diffs' = st.diffs
    /\ clear_parent_flag' = st.clear_parent_flag
    /\ flushed' = st.flushed
    /\ opened' = st.opened
    /\ IF st.err = None
       THEN /\ i' = i + 1
            /\ UNCHANGED <<pc, result>>
       ELSE /\ pc' = "raised"
            /\ result' = st.err
            /\ UNCHANGED i

\* One iteration of the for loop (lines 432-476) on the next decision.
apply_iteration ==
    /\ pc = "apply"
    /\ i < Len(decisions)
    /\ SetLoopState(ApplyStep(CurrentState, decisions[i + 1]))
    /\ UNCHANGED <<decisions, out, base, flat, arg>>

\* The variables after the last flush, which ends in state st.
SetReturn(st) ==
    /\ merged' = st.merged
    /\ flushed' = st.flushed
    /\ IF st.err = None
       THEN /\ pc' = "returned"
            /\ result' = from_dict(st.merged)
       ELSE /\ pc' = "raised"
            /\ result' = st.err

\* The end of the loop (lines 477-485): last flush and return.
apply_return ==
    /\ pc = "apply"
    /\ i = Len(decisions)
    /\ SetReturn(Flush(CurrentState))
    /\ UNCHANGED <<decisions, out, base, i, prev_path, resolved, diffs,
                   clear_parent_flag, opened, flat, arg>>

\* build_diffs(base, decisions, which), called on the arguments of the
\* finished call of apply_decisions.
build_diffs_call ==
    /\ pc \in {"returned", "raised"}
    /\ flat = None
    /\ \E which \in Views :
          flat' = [which |-> which, diff |-> build_diffs(base, decisions, which)]
    /\ UNCHANGED <<decisions, out, base, pc, i, merged, prev_path, resolved, diffs,
                   clear_parent_flag, flushed, opened, result, arg>>

NextApply == apply_iteration \/ apply_return \/ build_diffs_call

SpecApply == InitApply /\ [][NextApply]_vars

-----------------------------------------------------------------------------
(* Specification of the normaliser: one decision is added for a path and   *)
(* diffs, then the keys add_decision moved onto the path are pushed back   *)

MaxNesting == 2

LeafDiffs == { <<op_remove(Name("b"))>>,
               <<op_remove(Name("b")), op_add(Name("a"), IntValue(1))>>,
               <<>> }

\* The diffs with at most n Patch layers around a leaf.
RECURSIVE NestedDiffs(_)
NestedDiffs(n) ==
    IF n = 0 THEN LeafDiffs
    ELSE NestedDiffs(n - 1)
            \cup { <<op_patch(k, d)>> : k \in {Name("a"), Index(0)}, d \in NestedDiffs(n - 1) }

NormDiffs == NestedDiffs(MaxNesting) \cup {NoneDiff}

NormArgs ==
    [path : {<<>>, <<Name("a")>>}, local_diff : NormDiffs, remote_diff : NormDiffs]

InitNormalizer ==
    /\ arg \in NormArgs
    /\ decisions = <<>>
    /\ out = None
    /\ pc = "build"
    /\ base = NoneValue
    /\ i = 0
    /\ merged = NoneValue
    /\ prev_path = NonePath
    /\ resolved = NoneValue
    /\ diffs = NoneDiff
    /\ clear_parent_flag = FALSE
    /\ flushed = <<>>
    /\ opened = <<>>
    /\ result = None
    /\ flat = None

\* builder.add_decision(path, "base", local_diff, remote_diff) on the arguments.
add_arg ==
    /\ decisions = <<>>
    /\ add_decision(arg.path, "base", arg.local_diff, arg.remote_diff, FALSE, NoneDiff)

\* The keys of the stored decision's path that were not in the given path.
MovedKeys(decision) ==
    SubSeq(decision.common_path, Len(arg.path) + 1, Len(decision.common_path))

\* push_patch_decision(decision, moved keys) on the stored decision.
push_back ==
    /\ pc = "build"
    /\ Len(decisions) = 1
    /\ result' = push_patch_decision(decisions[1], MovedKeys(decisions[1]))
    /\ pc' = "pushed"
    /\ UNCHANGED <<decisions, out, base, i, merged, prev_path, resolved, diffs,
                   clear_parent_flag, flushed, opened, flat, arg>>

NextNormalizer == add_arg \/ push_back

SpecNormalizer == InitNormalizer /\ [][NextNormalizer]_vars

-----------------------------------------------------------------------------
(* Specification of the builder: decisions with any diffs, added in any order *)

MaxBuilt == 2

PatchA(d) == <<op_patch(Name("a"), d)>>

BuildDiffs == { NoneDiff, <<>>, RemoveB, PatchA(RemoveB), PatchA(PatchA(RemoveB)),
                <<op_patch(Name("b"), RemoveB)>> }

\* (action, custom_diff): a custom_diff comes with the action custom only.
BuildActions == { <<"base", NoneDiff>>, <<"custom", PatchA(RemoveB)>>, <<"custom", RemoveB>> }

\* The remote diffs: absent, empty, and one and two Patch layers on the key a.
BuildRemotes == { NoneDiff, <<>>, PatchA(RemoveB), PatchA(PatchA(RemoveB)) }

NextBuild ==
    \/ \E l \in BuildDiffs, r \in BuildRemotes, a \in BuildActions :
          /\ Len(decisions) < MaxBuilt
          /\ add_decision(<<Name("s")>>, a[1], l, r, FALSE, a[2])
    \/ validated

SpecBuild == InitBuilder /\ [][NextBuild]_vars


-----------------------------------------------------------------------------
(* Specification of the constructors: arg holds the arguments of the next  *)
(* call, result the exception of the last call that raised                 *)

MaxCalls == 2

\* One op, and a Patch op around an empty diff.
ShapeDiffs == { RemoveB, <<op_patch(Name("a"), <<>>)>> }

\* The local side may also be empty, the remote side absent.
ShapeLocals == ShapeDiffs \cup { <<>> }

ShapeRemotes == ShapeDiffs \cup { NoneDiff }

Constructors ==
    {"onesided", "local_then_remote", "remote_then_local", "agreement", "conflict"}

CtorArgs == [ctor : Constructors, local_diff : ShapeLocals, remote_diff : ShapeRemotes]

InitShape ==
    /\ arg \in CtorArgs
    /\ decisions = <<>>
    /\ out = None
    /\ pc = "build"
    /\ base = NoneValue
    /\ i = 0
    /\ merged = NoneValue
    /\ prev_path = NonePath
    /\ resolved = NoneValue
    /\ diffs = NoneDiff
    /\ clear_parent_flag = FALSE
    /\ flushed = <<>>
    /\ opened = <<>>
    /\ result = None
    /\ flat = None

\* The caller chooses the arguments of its next call.
next_args ==
    /\ pc = "build"
    /\ arg' \in CtorArgs
    /\ UNCHANGED <<decisions, out, base, pc, i, merged, prev_path, resolved, diffs,
                   clear_parent_flag, flushed, opened, result, flat>>

CallOf(ctor) == arg.ctor = ctor /\ Len(decisions) < MaxCalls

onesided_call ==
    CallOf("onesided") /\ onesided(<<>>, arg.local_diff, arg.remote_diff)

local_then_remote_call ==
    CallOf("local_then_remote")
        /\ local_then_remote(<<>>, arg.local_diff, arg.remote_diff, FALSE)

remote_then_local_call ==
    CallOf("remote_then_local")
        /\ remote_then_local(<<>>, arg.local_diff, arg.remote_diff, FALSE)

agreement_call ==
    CallOf("agreement") /\ agreement(<<>>, arg.local_diff, arg.remote_diff)

conflict_call ==
    CallOf("conflict") /\ conflict(<<>>, arg.local_diff, arg.remote_diff)

NextShape ==
    \/ next_args
    \/ onesided_call
    \/ local_then_remote_call
    \/ remote_then_local_call
    \/ agreement_call
    \/ conflict_call

SpecShape == InitShape /\ [][NextShape]_vars

-----------------------------------------------------------------------------
(* Specification of apply_decisions on lists that hold decisions with an   *)
(* action outside the defined set                                          *)

\* apply_decisions is entered with base b and the validated list of ds.
InitApplyOn(b, ds) ==
    /\ base = b
    /\ decisions = SortedReverse(ds)
    /\ out = None
    /\ pc = "apply"
    /\ i = 0
    /\ merged = b
    /\ prev_path = NonePath
    /\ resolved = NoneValue
    /\ diffs = NoneDiff
    /\ clear_parent_flag = FALSE
    /\ flushed = <<>>
    /\ opened = <<>>
    /\ result = None
    /\ flat = None
    /\ arg = None

DefinedActions ==
    {"base", "local", "remote", "either", "custom", "local_then_remote",
     "remote_then_local", "clear", "clear_parent"}

\* (action, local_diff, remote_diff, conflict): an undefined action next to
\* defined ones that apply to a sequence, a text and a line of a text.
UnknownShapes ==
    { <<"foo", RemoveFirst, RemoveSecond, FALSE>>,
      <<"base", <<>>, <<>>, FALSE>>,
      <<"remote", NoneDiff, RemoveFirst, FALSE>>,
      <<"clear_parent", RemoveFirst, RemoveSecond, FALSE>> }

UnknownPool == Shaped({PathAB, PathS, PathS1}, UnknownShapes)

UnknownLists == UNION { [1..n -> UnknownPool] : n \in 0..MaxApplyDecisions }

InitUnknown == \E ds \in UnknownLists : InitApplyOn(DocNested, ds)

SpecUnknown == InitUnknown /\ [][NextApply]_vars

-----------------------------------------------------------------------------
(* Specification of resolve_action: one call on a node and a decision *)

\* [1, [2], "x\n"]
ListNode == List(<<IntValue(1), List(<<IntValue(2)>>), Str(<<Line("x")>>)>>)

\* {"": 1, "a": [2], "b": "x\n"}
MapNode ==
    Dict([k \in {"", "a", "b"} |->
             CASE k = "" -> IntValue(1)
               [] k = "a" -> List(<<IntValue(2)>>)
               [] OTHER -> Str(<<Line("x")>>)])

TextNode == Str(<<Line("x"), <<"y">>>>)

ScalarNode == IntValue(7)

ResolveNodes == {ListNode, MapNode, TextNode, ScalarNode}

\* Decisions of every defined action but clear, with the diffs the
\* constructors of the builder give them.
ResolveDecisions ==
    { MergeDecision(<<>>, "base", <<>>, <<>>, NoneDiff, FALSE),
      MergeDecision(<<>>, "base", RemoveFirst, RemoveSecond, NoneDiff, TRUE),
      MergeDecision(<<>>, "local", RemoveFirst, NoneDiff, NoneDiff, FALSE),
      MergeDecision(<<>>, "remote", NoneDiff, RemoveSecond, NoneDiff, FALSE),
      MergeDecision(<<>>, "either", RemoveFirst, RemoveFirst, NoneDiff, FALSE),
      MergeDecision(<<>>, "custom", RemoveFirst, RemoveSecond, RemoveB, FALSE),
      MergeDecision(<<>>, "local_then_remote", RemoveFirst, RemoveSecond, NoneDiff, FALSE),
      MergeDecision(<<>>, "remote_then_local", RemoveFirst, RemoveSecond, NoneDiff, FALSE),
      MergeDecision(<<>>, "clear_parent", RemoveFirst, RemoveSecond, NoneDiff, FALSE) }

ReplaceAt(k) == op_replace(k, IntValue(9))

\* Clear decisions whose ops target the keys ks: one op on each side, or two
\* local ops and one remote op.
ClearDecisions(ks) ==
    { MergeDecision(<<>>, "clear", <<ReplaceAt(k1)>>, <<ReplaceAt(k2)>>, NoneDiff, FALSE) :
          k1 \in ks, k2 \in ks }
    \cup
    { MergeDecision(<<>>, "clear", <<ReplaceAt(k1), ReplaceAt(k2)>>, <<ReplaceAt(k3)>>,
                    NoneDiff, FALSE) : k1 \in ks, k2 \in ks, k3 \in ks }

\* (node, decision): every node with every other decision, and the Clear
\* decisions with the node that has their keys.
ResolveInputs ==
    (ResolveNodes \X ResolveDecisions)
        \cup ({ListNode} \X ClearDecisions({Index(0), Index(1), Index(2)}))
        \cup ({MapNode} \X ClearDecisions({Name(""), Name("a"), Name("b")}))

InitResolve ==
    /\ \E in \in ResolveInputs :
          /\ base = in[1]
          /\ decisions = <<in[2]>>
    /\ out = None
    /\ pc = "resolve"
    /\ i = 0
    /\ merged = NoneValue
    /\ prev_path = NonePath
    /\ resolved = NoneValue
    /\ diffs = NoneDiff
    /\ clear_parent_flag = FALSE
    /\ flushed = <<>>
    /\ opened = <<>>
    /\ result = None
    /\ flat = None
    /\ arg = None

\* resolve_action(base, decision): result is the value returned, NoneDiff for
\* None, or the exception raised.
resolve_call ==
    /\ pc = "resolve"
    /\ result' = resolve_action(base, decisions[1])
    /\ pc' = "resolved"
    /\ UNCHANGED <<decisions, out, base, i, merged, prev_path, resolved, diffs,
                   clear_parent_flag, flushed, opened, flat, arg>>

NextResolve == resolve_call

SpecResolve == InitResolve /\ [][NextResolve]_vars

-----------------------------------------------------------------------------
(* Specification of push_patch_decision: one call on a decision the caller *)
(* holds (decisions[1]) with a prefix (arg)                                *)

MaxPrefix == 2

PushKeySet == {Name("a"), Index(0)}

Prefixes == UNION { [1..n -> PushKeySet] : n \in 0..MaxPrefix }

PushPaths == {<<>>, <<Name("a")>>, <<Name("a"), Index(0)>>, <<Index(0), Name("a")>>}

PushDecisions ==
    { MergeDecision(p, sh[1], sh[2], sh[3], sh[4], FALSE) :
          p \in PushPaths,
          sh \in { <<"local", RemoveB, NoneDiff, NoneDiff>>,
                   <<"base", RemoveB, ReplaceB, NoneDiff>>,
                   <<"custom", RemoveB, <<>>, ReplaceB>> } }

InitPush ==
    /\ \E d \in PushDecisions : decisions = <<d>>
    /\ arg \in Prefixes
    /\ out = None
    /\ pc = "call"
    /\ base = NoneValue
    /\ i = 0
    /\ merged = NoneValue
    /\ prev_path = NonePath
    /\ resolved = NoneValue
    /\ diffs = NoneDiff
    /\ clear_parent_flag = FALSE
    /\ flushed = <<>>
    /\ opened = <<>>
    /\ result = None
    /\ flat = None

\* The caller's decision and the value returned, or the exception raised,
\* for the objects o the call ends with.
SetPushed(o) ==
    /\ decisions' = <<o.decision>>
    /\ result' = IF o.err # None THEN o.err ELSE o.dec

push_call ==
    /\ pc = "call"
    /\ SetPushed(PushCall(decisions[1], arg))
    /\ pc' = "pushed"
    /\ UNCHANGED <<out, base, i, merged, prev_path, resolved, diffs,
                   clear_parent_flag, flushed, opened, flat, arg>>

NextPush == push_call

SpecPush == InitPush /\ [][NextPush]_vars

-----------------------------------------------------------------------------
(* Specification of apply_decisions on lists of three groups, whose later  *)
(* decisions are split on a working copy that earlier flushes have changed *)

MaxSplitDecisions == 3

PathAB0 == <<Name("a"), Name("b"), Index(0)>>

\* Decisions whose flush removes a node, replaces a text by a list or
\* shortens a sequence or a text, at paths that are prefixes of one another.
SplitPool ==
    { MergeDecision(PathRoot, "remote", NoneDiff, <<op_remove(Name("a"))>>, NoneDiff, FALSE),
      MergeDecision(PathA, "local", ReplaceB, NoneDiff, NoneDiff, FALSE),
      MergeDecision(PathA, "remote", NoneDiff, RemoveB, NoneDiff, FALSE),
      MergeDecision(PathAB, "clear_parent", RemoveFirst, RemoveSecond, NoneDiff, FALSE),
      MergeDecision(PathAB0, "remote", NoneDiff, RemoveFirst, NoneDiff, FALSE),
      MergeDecision(PathS, "remote", NoneDiff, RemoveSecond, NoneDiff, FALSE),
      MergeDecision(PathS1, "remote", NoneDiff, RemoveFirst, NoneDiff, FALSE),
      MergeDecision(PathS10, "base", RemoveFirst, RemoveSecond, NoneDiff, TRUE) }

SplitLists == UNION { [1..n -> SplitPool] : n \in 0..MaxSplitDecisions }

InitSplit == \E b \in {DocNested, DocMixed} : \E ds \in SplitLists : InitApplyOn(b, ds)

SpecSplit == InitSplit /\ [][NextApply]_vars
-----------------------------------------------------------------------------
(* Claims on the ordering *)

IsStrictPrefix(p, q) == Len(p) < Len(q) /\ SubSeq(q, 1, Len(p)) = p

\* Two paths of the same length that agree on all but the last component and
\* end in the int indices a and b.
IndexSiblings(p, q, a, b) ==
    /\ Len(p) = Len(q) /\ Len(p) > 0
    /\ SubSeq(p, 1, Len(p) - 1) = SubSeq(q, 1, Len(q) - 1)
    /\ p[Len(p)] = Index(a) /\ q[Len(q)] = Index(b)

\* C1: in the list validated returns, a decision whose common_path strictly
\* extends the common_path of another one comes before that other one.
C1_DeeperPathFirst ==
    pc = "validated" =>
        \A m, n \in 1..Len(out) :
            IsStrictPrefix(out[m].common_path, out[n].common_path) => n < m

\* C1 witness: a decision was added before a decision on a deeper path below
\* it, and validated has moved the deeper one in front.
C1_Witness ==
    /\ pc = "validated"
    /\ \E m, n \in 1..Len(decisions) :
          /\ m < n
          /\ IsStrictPrefix(decisions[m].common_path, decisions[n].common_path)
          /\ Len(decisions[m].common_path) > 0
    /\ Len(out) = MaxDecisions

-----------------------------------------------------------------------------
(* Claims on apply_decisions *)

Finished == pc \in {"returned", "raised"}

\* The container path and text offset of a path in the base document.
BaseSplit(p) == split_string_path(base, p)

\* The path resolves in the base document: the walk to its container succeeds
\* and a text offset addresses a line (and character) the text has.
Resolves(b, p) ==
    LET sp == split_string_path(b, p) IN
    /\ ~Raised(sp)
    /\ ~IsError(GetAt(b, sp.path))
    /\ sp.line # <<>> =>
          /\ \A n \in 1..Len(sp.line) : IsInt(sp.line[n])
          /\ Len(sp.line) <= 2
          /\ sp.line[1].index < Len(GetAt(b, sp.path).v)
          /\ Len(sp.line) = 2 =>
                sp.line[2].index < Len(GetAt(b, sp.path).v[sp.line[1].index + 1])

IsPrefix(p, q) == Len(p) <= Len(q) /\ SubSeq(q, 1, Len(p)) = p

\* The paths probed when two documents are compared node by node.
ProbePaths ==
    {<<>>} \cup {<<Name(x)>> : x \in {"a", "b", "s"}}
           \cup {<<Name(x), k>> : x \in {"a", "b", "s"}, k \in {Name("a"), Name("b"), Index(0), Index(1)}}

\* C3: one Local (Remote) decision at a path P that resolves and crosses no
\* text: the call returns a document whose node at P is patch(base node at P,
\* local_diff (remote_diff)), the whole result when P is the root, and whose
\* nodes outside the subtree at P are those of base; it raises exactly when
\* that patch fails.
C3_OneSidedDecision ==
    (/\ Finished
     /\ Len(decisions) = 1
     /\ decisions[1].action \in {"local", "remote"}
     /\ "exc" \notin DOMAIN BaseSplit(decisions[1].common_path)
     /\ BaseSplit(decisions[1].common_path).line = <<>>
     /\ ~IsError(GetAt(base, decisions[1].common_path)))
    => LET P == decisions[1].common_path
           d == IF decisions[1].action = "local" THEN decisions[1].local_diff
                ELSE decisions[1].remote_diff
           new == patch(GetAt(base, P), d)
       IN IF IsError(new) THEN pc = "raised"
          ELSE /\ pc = "returned"
               /\ GetAt(result, P) = new
               /\ P = <<>> => result = new
               /\ \A q \in ProbePaths :
                     (~IsPrefix(P, q) /\ ~IsPrefix(q, P) /\ ~IsError(GetAt(base, q)))
                         => GetAt(result, q) = GetAt(base, q)
               /\ \A q \in ProbePaths :
                     (IsPrefix(q, P) /\ q # P /\ GetAt(base, q).t = "dict")
                         => DOMAIN GetAt(result, q).v = DOMAIN GetAt(base, q).v

\* C3 witness: a single Local decision on the root has returned a changed document.
C3_Witness ==
    /\ pc = "returned"
    /\ Len(decisions) = 1
    /\ decisions[1].action = "local"
    /\ decisions[1].common_path = <<>>
    /\ result # base
    /\ GetAt(result, PathA) = GetAt(base, PathA)

WithoutBase(ds) == SelectSeq(ds, LAMBDA d : d.action # "base")

\* The outcome of a call: the returned document, or one value for "raised".
Outcome(x) == IF IsError(x) THEN Error("raised") ELSE x

\* C4: when every path of the list resolves, the call has the outcome of the
\* call on the list without its Base decisions.
C4_BaseContributesNothing ==
    (/\ Finished
     /\ \A n \in 1..Len(decisions) : Resolves(base, decisions[n].common_path))
    => /\ Outcome(result) = Outcome(apply_decisions(base, WithoutBase(decisions)))
       /\ WithoutBase(decisions) = <<>> => result = base

\* C4 witness: a list holding a Base decision that records a conflict at a
\* line of a text, next to a decision that changes the document.
C4_Witness ==
    /\ pc = "returned"
    /\ Len(decisions) = 2
    /\ result # base
    /\ \E n \in 1..2 :
          /\ decisions[n].action = "base"
          /\ decisions[n].conflict
          /\ BaseSplit(decisions[n].common_path).line # <<>>

EmptyOfType(t) ==
    CASE t = "list" -> List(<<>>)
      [] t = "dict" -> Dict(<<>>)
      [] t = "str" -> Str(<<>>)
      [] OTHER -> NoneValue

\* The ops of both diffs of a decision all have the key k.
AllTarget(d, k) ==
    /\ d.local_diff # NoneDiff /\ d.remote_diff # NoneDiff
    /\ Len(d.local_diff \o d.remote_diff) > 0
    /\ \A n \in 1..Len(d.local_diff \o d.remote_diff) :
          (d.local_diff \o d.remote_diff)[n].key = k

\* C5: one Clear decision at a mapping P whose ops all target the key k of
\* that mapping: the call returns base with the value at P/k replaced by the
\* empty value of its type.
C5_ClearEmptiesValue ==
    \A k \in {"a", "b", "s"} :
        (/\ Finished
         /\ Len(decisions) = 1
         /\ decisions[1].action = "clear"
         /\ ~IsError(GetAt(base, decisions[1].common_path))
         /\ GetAt(base, decisions[1].common_path).t = "dict"
         /\ k \in DOMAIN GetAt(base, decisions[1].common_path).v
         /\ AllTarget(decisions[1], Name(k)))
        => LET P == decisions[1].common_path
               Pk == Append(P, Name(k))
           IN /\ pc = "returned"
              /\ GetAt(result, Pk) = EmptyOfType(GetAt(base, Pk).t)
              /\ \A q \in ProbePaths :
                    (~IsPrefix(Pk, q) /\ ~IsPrefix(q, Pk) /\ ~IsError(GetAt(base, q)))
                        => GetAt(result, q) = GetAt(base, q)
              /\ \A q \in ProbePaths :
                    (IsPrefix(q, Pk) /\ q # Pk)
                        => DOMAIN GetAt(result, q).v = DOMAIN GetAt(base, q).v

\* C5 witness: a Clear decision has emptied a non-empty sequence below the root.
C5_Witness ==
    /\ pc = "returned"
    /\ Len(decisions) = 1
    /\ decisions[1].action = "clear"
    /\ decisions[1].common_path = PathA
    /\ GetAt(base, PathAB).t = "list"
    /\ GetAt(base, PathAB).v # <<>>
    /\ GetAt(result, PathAB) = List(<<>>)


-----------------------------------------------------------------------------
(* Claims on the clear_parent override *)

\* The decisions of the group with container path P.
GroupOf(P) ==
    {n \in 1..Len(decisions) :
        /\ ~Raised(BaseSplit(decisions[n].common_path))
        /\ BaseSplit(decisions[n].common_path).path = P}

\* The ClearParent resolution of a node: one Remove per key of a mapping, one
\* RemoveRange(0, length) for a sequence or a text.
ClearParentOps(node) ==
    IF node.t = "dict"
    THEN [n \in 1..Cardinality(DOMAIN node.v) |->
             op_remove(Name(KeysInOrder(DOMAIN node.v)[n]))]
    ELSE <<op_removerange(Index(0), PyLen(node))>>

\* C6: when the group flushed at P holds a ClearParent decision, the ops
\* applied at the flush are the ClearParent resolution of the node at P and
\* nothing of any other decision of the group, and the node written back
\* at P is empty.
C6_ClearParentEmptiesNode ==
    \A k \in 1..Len(flushed) :
        (\E n \in GroupOf(flushed[k].path) : decisions[n].action = "clear_parent")
        => /\ flushed[k].ops = ClearParentOps(flushed[k].node)
           /\ flushed[k].new = EmptyOfType(flushed[k].node.t)

-----------------------------------------------------------------------------
(* Claims on text offsets *)

\* ops under one Patch layer per component of offset, the first outermost.
RECURSIVE Layers(_, _)
Layers(offset, ops) ==
    IF offset = <<>> THEN ops
    ELSE <<[op |-> "patch", key |-> offset[1], diff |-> Layers(Tail(offset), ops)]>>

\* The ops of the decisions of ds whose container path is P, in the order of
\* ds, each under the Patch layers of its text offset.
RECURSIVE GroupOps(_, _, _)
GroupOps(node, P, ds) ==
    IF ds = <<>> THEN <<>>
    ELSE (IF /\ ~Raised(BaseSplit(Head(ds).common_path))
             /\ BaseSplit(Head(ds).common_path).path = P
          THEN Layers(BaseSplit(Head(ds).common_path).line, resolve_action(node, Head(ds)))
          ELSE <<>>)
         \o GroupOps(node, P, Tail(ds))

\* The text at P = common_path[:n] is crossed by a decision of its group.
CrossedText(P) ==
    /\ ~IsError(GetAt(base, P))
    /\ GetAt(base, P).t = "str"
    /\ \E n \in GroupOf(P) : Len(decisions[n].common_path) > Len(P)

-----------------------------------------------------------------------------
(* Claims on build_diffs *)

\* The document a flat diff yields on base; None, which build_diffs returns
\* when it has collected no diffs (line 573-574), is read as the empty diff.
FlatApplied(b, d) == IF d = NoneDiff THEN b ELSE patch(b, d)

\* C8: for a list in validated order on which apply_decisions returns,
\* build_diffs(base, decisions, "merged") returns a flat diff, and patch
\* applied to base with that diff yields the document apply_decisions
\* returns.
C8_ReassembledDiffApplies ==
    (/\ pc = "returned"
     /\ flat # None
     /\ flat.which = "merged")
    => /\ ~IsErrorList(flat.diff)
       /\ FlatApplied(base, flat.diff) = result

-----------------------------------------------------------------------------
(* Claims on the normaliser *)

\* C9: when add_decision has moved k keys from the diffs onto the path p,
\* push_patch_decision on the stored decision with those k keys as prefix
\* yields a decision whose common_path is p and whose local_diff and
\* remote_diff are the diffs given, an absent or empty side included.
C9_NormalizerRoundTrip ==
    pc = "pushed"
    => /\ ~Raised(result)
       /\ result.common_path = arg.path
       /\ result.local_diff = arg.local_diff
       /\ result.remote_diff = arg.remote_diff

-----------------------------------------------------------------------------
(* Claims on MergeDecisionBuilder *)

\* The diffs of a decision that take part in its depth: local, remote, and
\* custom for the action custom.
DepthDiffs(d) ==
    {d.local_diff, d.remote_diff}
        \cup (IF d.action = "custom" THEN {d.custom_diff} ELSE {})

PresentDiffs(d) == {x \in DepthDiffs(d) : x # NoneDiff /\ x # <<>>}

\* Every present diff is one Patch op, and all of them have the same key.
SharedPatchLayer(d) ==
    /\ PresentDiffs(d) # {}
    /\ \A x \in PresentDiffs(d) : Len(x) = 1 /\ x[1].op = "patch"
    /\ \A x, y \in PresentDiffs(d) : x[1].key = y[1].key

AtMaximalDepth(d) ==
    /\ ~SharedPatchLayer(d)
    /\ pop_patch_decision(d) = None
    /\ pop_all_patch_decisions(d) = d

-----------------------------------------------------------------------------
(* Claims on the constructors *)

\* The shape invariant of a decision, by its action.
ShapeHolds(d) ==
    CASE d.action \in {"local", "remote"} ->
            Truthy(d.local_diff) # Truthy(d.remote_diff)
      [] d.action \in {"local_then_remote", "remote_then_local"}
            \/ (d.action = "base" /\ d.conflict) ->
            /\ Truthy(d.local_diff) /\ Truthy(d.remote_diff)
            /\ d.local_diff # d.remote_diff
      [] d.action = "either" ->
            /\ Truthy(d.local_diff) /\ Truthy(d.remote_diff)
            /\ d.local_diff = d.remote_diff
      [] OTHER -> TRUE

\* C11: after any sequence of successful constructor calls every stored
\* decision satisfies the shape invariant of its action on its stored diffs.
C11_StoredShapes ==
    \A n \in 1..Len(decisions) : ShapeHolds(decisions[n])

\* The arguments contradict the action family of the constructor.
Contradicts(a) ==
    CASE a.ctor = "onesided" -> Truthy(a.local_diff) = Truthy(a.remote_diff)
      [] a.ctor = "agreement" ->
            ~(Truthy(a.local_diff) /\ Truthy(a.remote_diff)) \/ a.local_diff # a.remote_diff
      [] OTHER ->
            ~(Truthy(a.local_diff) /\ Truthy(a.remote_diff)) \/ a.local_diff = a.remote_diff

\* C12: a constructor called with arguments that contradict its action
\* family raises and leaves the decision list of the builder as it was.
C12_ContradictingCallFails ==
    [][(arg' = arg /\ Contradicts(arg))
          => (decisions' = decisions /\ result' = Error("AssertionError"))]_vars

\* C12 witness: agreement has raised on unequal sides, after a call that
\* stored a decision.
C12_Witness ==
    /\ result = Error("AssertionError")
    /\ arg.ctor = "agreement"
    /\ Truthy(arg.local_diff) /\ Truthy(arg.remote_diff)
    /\ arg.local_diff # arg.remote_diff
    /\ Len(decisions) = 1

-----------------------------------------------------------------------------
(* Claims on undefined actions *)

\* C13: when the list holds a decision whose action is outside the defined
\* set, apply_decisions raises the unknown-action error, wherever that
\* decision stands in the list and in its group.
C13_UnknownActionRaises ==
    (/\ Finished
     /\ \E n \in 1..Len(decisions) : decisions[n].action \notin DefinedActions)
    => result = Error("NotImplementedError")

-----------------------------------------------------------------------------
(* Claims on resolve_action *)

\* The keys the ops of both diffs of a decision target.
TargetKeys(d) ==
    {(d.local_diff \o d.remote_diff)[n].key : n \in 1..Len(d.local_diff \o d.remote_diff)}

\* C14: a Clear decision whose ops do not all target one key resolves to the
\* inconsistent-clear-key error, whichever keys differ, and never to a
\* Replace on one of them.
C14_InconsistentClearKeyFails ==
    (/\ pc = "resolved"
     /\ decisions[1].action = "clear"
     /\ Cardinality(TargetKeys(decisions[1])) > 1)
    => result = ErrorDiff("AssertionError")

\* C20: for every defined action but clear and every type of node,
\* resolve_action returns a list of ops: it neither raises nor returns None.
C20_ResolveReturnsList ==
    (/\ pc = "resolved"
     /\ decisions[1].action \in DefinedActions \ {"clear"})
    => /\ result # NoneDiff
       /\ ~IsErrorList(result)
       /\ \A n \in 1..Len(result) : "op" \in DOMAIN result[n]

-----------------------------------------------------------------------------
(* Claims on push_patch_decision *)

IsSuffix(p, q) == Len(p) <= Len(q) /\ SubSeq(q, Len(q) - Len(p) + 1, Len(q)) = p

\* C15: push_patch_decision fails when the prefix has more keys than the
\* path of the decision or names a key that is not the trailing key of the
\* path, and succeeds otherwise; after the call, failed or not, the decision
\* passed in has the common_path and the diffs it had before.
C15_PushLeavesDecision ==
    [][pc' = "pushed"
          => /\ decisions' = decisions
             /\ Raised(result') = ~IsSuffix(arg, decisions[1].common_path)
             /\ Len(arg) > Len(decisions[1].common_path) => Raised(result')
             /\ ~Raised(result') =>
                   /\ result'.common_path \o arg = decisions[1].common_path
                   /\ result' = push_patch_decision(decisions[1], arg)]_vars

\* C15 witness: a call has failed for want of keys after it had moved the
\* one key of the path.
C15_Witness ==
    /\ pc = "pushed"
    /\ result = Error("ValueError")
    /\ Len(decisions[1].common_path) = 1
    /\ Len(arg) = 2
    /\ decisions[1].local_diff = RemoveB
-----------------------------------------------------------------------------
(* Claims on the order of the groups of apply_decisions *)

\* C16: for a list in validated order, a group whose container path lies
\* strictly inside another group's container path is flushed before the
\* outer group is opened; once the group at P is flushed no decision still
\* to come has a path strictly inside the subtree at P; every container path
\* is opened once and flushed once, in the order of opening, and a call that
\* returns has flushed every group it opened.
C16_ChildrenFlushedFirst ==
    /\ Len(opened) - 1 <= Len(flushed) /\ Len(flushed) <= Len(opened)
    /\ \A k \in 1..Len(flushed) : flushed[k].path = opened[k]
    /\ \A j, k \in 1..Len(opened) :
          /\ (j # k) => opened[j] # opened[k]
          /\ IsStrictPrefix(opened[k], opened[j]) => (j < k /\ j <= Len(flushed))
    /\ \A k \in 1..Len(flushed) : \A n \in (i + 1)..Len(decisions) :
          pc = "apply" => ~IsStrictPrefix(flushed[k].path, decisions[n].common_path)
    /\ pc = "returned" => Len(flushed) = Len(opened)

\* A call that returned after flushing two groups that changed their nodes,
\* the second at a strict prefix of the path of the first.
C16_Witness ==
    /\ pc = "returned"
    /\ Len(flushed) = 2
    /\ IsStrictPrefix(flushed[2].path, flushed[1].path)
    /\ flushed[1].new # flushed[1].node
    /\ flushed[2].new # flushed[2].node
-----------------------------------------------------------------------------
(* Claims on several clear_parent decisions in one group *)

\* The ClearParent decisions of the group with container path P.
ClearParentsOf(P) == {n \in GroupOf(P) : decisions[n].action = "clear_parent"}

\* The last of a non-empty set of positions of the list.
LastOf(S) == CHOOSE n \in S : \A m \in S : m <= n

\* C17: when the group flushed at P holds several ClearParent decisions,
\* the ops flushed are those resolved from the last of them, under the Patch
\* layers of that decision's own text offset, and nothing collected before.
C17_LastClearParentWins ==
    \A k \in 1..Len(flushed) :
        Cardinality(ClearParentsOf(flushed[k].path)) >= 2
        => flushed[k].ops =
              Layers(BaseSplit(decisions[LastOf(ClearParentsOf(flushed[k].path))].common_path).line,
                     ClearParentOps(flushed[k].node))

\* What the loop does: the ops flushed are those of the first ClearParent
\* decision of the group, every later decision of the group being skipped.
FirstOf(S) == CHOOSE n \in S : \A m \in S : n <= m

FirstClearParentWins ==
    \A k \in 1..Len(flushed) :
        Cardinality(ClearParentsOf(flushed[k].path)) >= 2
        => flushed[k].ops =
              Layers(BaseSplit(decisions[FirstOf(ClearParentsOf(flushed[k].path))].common_path).line,
                     ClearParentOps(flushed[k].node))
-----------------------------------------------------------------------------
(* Claims on the split of a path on the working copy *)

\* C18: for a list in validated order, the split of the path of every
\* decision still to come, computed on the working copy merged, is the split
\* computed on base: the same container path and text offset, or the same
\* exception.
C18_SplitOnMergedIsSplitOnBase ==
    pc = "apply" =>
        \A n \in (i + 1)..Len(decisions) :
            split_string_path(merged, decisions[n].common_path)
                = split_string_path(base, decisions[n].common_path)

\* A decision is still to come after a flush that removed the node at a/b or
\* changed its type.
C18_Witness ==
    /\ pc = "apply"
    /\ i < Len(decisions)
    /\ Len(flushed) >= 1
    /\ \/ IsError(GetAt(merged, PathAB))
       \/ GetAt(merged, PathAB).t # GetAt(base, PathAB).t
    /\ ~IsError(GetAt(base, PathAB))
-----------------------------------------------------------------------------
(* Claims on decisions on disjoint subtrees *)

\* The container path of the path p resolves in the document b.
ContainerResolves(b, p) ==
    /\ ~Raised(split_string_path(b, p))
    /\ ~IsError(GetAt(b, split_string_path(b, p).path))

\* The container paths of p and q in base are neither equal nor a prefix of
\* one another.
DisjointContainers(p, q) ==
    /\ ~IsPrefix(BaseSplit(p).path, BaseSplit(q).path)
    /\ ~IsPrefix(BaseSplit(q).path, BaseSplit(p).path)

\* C19: for two decisions whose container paths resolve in base and are
\* neither equal nor a prefix of one another, the call on the list in the
\* other order has the outcome of the call: the same document returned, or
\* an exception raised by both.
C19_DisjointDecisionsCommute ==
    (/\ Finished
     /\ Len(decisions) = 2
     /\ ContainerResolves(base, decisions[1].common_path)
     /\ ContainerResolves(base, decisions[2].common_path)
     /\ DisjointContainers(decisions[1].common_path, decisions[2].common_path))
    => Outcome(result) = Outcome(apply_decisions(base, <<decisions[2], decisions[1]>>))

\* A call that returned after flushing two groups on disjoint subtrees, each
\* of which changed its node.
C19_Witness ==
    /\ pc = "returned"
    /\ Len(decisions) = 2
    /\ ContainerResolves(base, decisions[1].common_path)
    /\ ContainerResolves(base, decisions[2].common_path)
    /\ DisjointContainers(decisions[1].common_path, decisions[2].common_path)
    /\ Len(flushed) = 2
    /\ flushed[1].new # flushed[1].node
    /\ flushed[2].new # flushed[2].node
    /\ result = apply_decisions(base, <<decisions[2], decisions[1]>>)
====
